---- MODULE Spec2Model ----
(***************************************************************************)
(* State-machine model of the audio player widgets:                        *)
(*   - useAudioPlayer            (hook, variant "hook")                    *)
(*   - WhatsAppAudioPlayer       (function component, variant "wa")        *)
(*   - RoundAudioPlayer          (class component, variant "round")        *)
(*   - ProgressBar               (class component, variant "pb")           *)
(* together with the HTMLAudioElement they drive.  One behaviour follows   *)
(* one mounted component; the variant is fixed in Init.                    *)
(*                                                                         *)
(* Times are exact: one time unit is 1/BarWidth second, so that            *)
(* duration * relativePos / width is an integer for every pointer position.*)
(* The browser is single threaded: every action is one handler run to      *)
(* completion, or one promise continuation; the continuations a task       *)
(* released run before the next task.  React state written by a handler is *)
(* taken to be committed before the next handler runs.                     *)
(***************************************************************************)
EXTENDS Integers, Sequences, FiniteSets, TLC

VARIABLES
    cfg,            \* props/options of the mounted component
    audio,          \* the HTMLAudioElement (the playback resource)
    st,             \* React state of the player (useState / this.state)
    pb,             \* ProgressBar instance: this.state, fields, window listeners
    effectPending,  \* useAudioPlayer: the setup effect has to (re-)run
    listeners,      \* useAudioPlayer: the hook is mounted, and the number of
                    \* handlers registered on the element per event kind
    op,             \* the handler the last step ran
    calls,          \* resource primitives and callbacks invoked by the last step
    arg,            \* the time the last step committed as a seek, if it did
    burst           \* history: the play requests made while play promises are
                    \* outstanding, and the false -> true transitions of
                    \* isPlaying observed since the first of them

vars == <<cfg, audio, st, pb, effectPending, listeners, op, calls, arg, burst>>

----------------------------------------------------------------------------
(* Bounds *)
MaxQ == 3           \* queued media-element tasks
MaxPending == 2     \* play promises awaiting settlement
DurSec == 2         \* duration of the media, in seconds
BarWidth == 2       \* laid-out width of the progress surface, in pixels

(* Program constants *)
HAVE_NOTHING == 0
HAVE_METADATA == 1
HAVE_FUTURE_DATA == 3
NaN == -1           \* the one non-finite number the model needs

HAVE_ENOUGH_DATA == HAVE_FUTURE_DATA + 1
Duration == DurSec * BarWidth      \* media duration in time units
NoError == "null"
ErrLoad == "Failed to load audio"
ErrPlay == "Failed to play audio"
ErrNotReady == "Audio is not ready to play yet"

isFinite(x) == x # NaN
\* JavaScript ===  on numbers: NaN equals nothing
StrictEq(x, y) == x # NaN /\ y # NaN /\ x = y

Variants == {"hook", "wa", "round", "legacy", "pb"}

----------------------------------------------------------------------------
(* The playback resource: HTMLMediaElement primitives.                      *)
(* q holds the queued media-element tasks; a task fires one or more events  *)
(* (TaskEvents) and carries the number of play promises it settles.  settle *)
(* lists, in order, the promises settled by the task that just ran: "res"   *)
(* for a fulfilled one, the reason for a rejected one.  Their continuations *)
(* run (one Settle step each) before the next task starts.                  *)

Enq(a, type, n) == [a EXCEPT !.q = Append(@, [type |-> type, n |-> n])]

Resolving == {"playing", "resolve"}
Rejecting == {"pause", "error"}

RECURSIVE SumN(_, _)
SumN(q, types) ==
    IF q = <<>> THEN 0
    ELSE (IF Head(q).type \in types THEN Head(q).n ELSE 0) + SumN(Tail(q), types)

Rep(x, n) == [i \in 1..n |-> x]

\* the events a task fires, in order; pauses = the task of the end of
\* playback finds the element unpaused and still at its end, and pauses it
TaskEvents(type, pauses) ==
    CASE type = "pause" -> <<"timeupdate", "pause">>
      [] type = "ended" -> IF pauses THEN <<"timeupdate", "pause", "ended">>
                           ELSE <<"timeupdate", "ended">>
      [] type = "resolve" -> <<>>
      [] OTHER -> <<type>>

\* the settlements a queued task carries
TaskSettles(e) ==
    IF e.type \in Resolving THEN Rep("res", e.n)
    ELSE IF e.type = "pause" THEN Rep("AbortError:pause", e.n)
    ELSE IF e.type = "error" THEN Rep("NotSupportedError", e.n)
    ELSE <<>>

RECURSIVE QueueSettles(_)
QueueSettles(q) ==
    IF q = <<>> THEN <<>> ELSE TaskSettles(Head(q)) \o QueueSettles(Tail(q))

endedPlayback(a) ==
    a.readyState >= HAVE_METADATA /\ StrictEq(a.currentTime, a.duration)

\* audio.load(): the media element load algorithm
AudioLoad(a) ==
    [a EXCEPT !.q = (IF a.readyState # HAVE_NOTHING /\ a.currentTime # 0
                     THEN <<[type |-> "timeupdate", n |-> 0]>> ELSE <<>>)
                    \o <<[type |-> "loadstart", n |-> 0]>>,
              !.settle = @ \o QueueSettles(a.q) \o Rep("AbortError:load", a.pending),
              !.pending = 0,
              !.readyState = HAVE_NOTHING,
              !.paused = TRUE,
              !.currentTime = 0,
              !.duration = NaN,
              !.playbackRate = 10,     \* back to defaultPlaybackRate
              !.buffered = <<>>,
              !.error = "none"]

\* audio.play(); allowed = FALSE is the autoplay policy refusing to start
\* playback (NotAllowedError)
AudioPlay(a, allowed) ==
    IF ~allowed /\ a.paused
    THEN [a EXCEPT !.settle = Append(@, "NotAllowedError")]
    ELSE LET a1 == [a EXCEPT !.pending = @ + 1,
                             !.currentTime = IF endedPlayback(a) THEN 0 ELSE @]
         IN IF a1.paused
            THEN LET a2 == Enq([a1 EXCEPT !.paused = FALSE], "play", 0)
                 IN IF a2.readyState < HAVE_FUTURE_DATA
                    THEN Enq(a2, "waiting", 0)
                    ELSE Enq([a2 EXCEPT !.pending = 0], "playing", a2.pending)
            ELSE IF a1.readyState >= HAVE_FUTURE_DATA
                 THEN Enq([a1 EXCEPT !.pending = 0], "resolve", a1.pending)
                 ELSE a1

\* audio.pause()
AudioPause(a) ==
    IF a.paused THEN a
    ELSE Enq([a EXCEPT !.paused = TRUE, !.pending = 0], "pause", a.pending)

\* audio.currentTime = t, t finite: before any data this only records the
\* default playback start position, afterwards it seeks (clamped to the media)
AudioSetCurrentTime(a, t) ==
    IF a.readyState = HAVE_NOTHING
    THEN [a EXCEPT !.currentTime = t]
    ELSE Enq([a EXCEPT !.currentTime =
                  IF t < 0 THEN 0 ELSE IF t > a.duration THEN a.duration ELSE t],
             "timeupdate", 0)

\* the task of the end of playback pauses the element if it is unpaused and
\* still at its end
EndPauses(a) == ~a.paused /\ endedPlayback(a)

\* the resource as a queued task leaves it before its events fire
TaskAudio(a) ==
    LET e == Head(a.q)
        pauses == e.type = "ended" /\ EndPauses(a)
    IN [a EXCEPT !.q = Tail(@),
                 !.paused = IF pauses THEN TRUE ELSE @,
                 !.pending = IF pauses THEN 0 ELSE @,
                 !.settle = IF pauses THEN Rep("AbortError:ended", a.pending)
                            ELSE TaskSettles(e)]

\* no task starts while promise continuations are still to run
Idle == audio.settle = <<>>

\* play promises not yet settled, or settled with the continuation still to run
Outstanding(a) == a.pending + SumN(a.q, Resolving \cup Rejecting) + Len(a.settle)

\* the resource a step leaves stays within the bounds
Fits(a) == Len(a.q) <= MaxQ /\ Outstanding(a) <= MaxPending

----------------------------------------------------------------------------
(* A handler runs on a context: the state it may write, the resource, and   *)
(* the log of primitives/callbacks it invoked.  dirty = a setState happened.*)

Ctx == [st |-> st, a |-> audio, pb |-> pb, calls |-> <<>>, dirty |-> FALSE,
        arg |-> 0, returned |-> FALSE]
Call(c, name) == [c EXCEPT !.calls = Append(@, name)]
SetSt(c, s) == [c EXCEPT !.st = s, !.dirty = TRUE]
Count(s, name) == Cardinality({i \in DOMAIN s : s[i] = name})
Before(s, x, y) ==
    \A j \in DOMAIN s : s[j] = y => \E i \in DOMAIN s : i < j /\ s[i] = x

----------------------------------------------------------------------------
(* useAudioPlayer: event handlers *)

handleLoadStart(c) ==
    SetSt(c, [c.st EXCEPT !.isLoading = TRUE, !.canPlay = FALSE, !.error = NoError])

\* faulty variant: the error is left as it was
handleLoadedMetadata_KeepsError(c) ==
    Call(SetSt(c, [c.st EXCEPT !.duration = c.a.duration]), "onLoadedMetadata")

handleLoadedMetadata(c) ==
    Call(SetSt(c, [c.st EXCEPT !.duration = c.a.duration, !.error = NoError]),
         "onLoadedMetadata")

handleCanPlay(c) ==
    SetSt(c, [c.st EXCEPT !.isLoading = FALSE, !.canPlay = TRUE, !.error = NoError])

handleCanPlayThrough(c) ==
    SetSt(c, [c.st EXCEPT !.isLoading = FALSE, !.canPlay = TRUE, !.error = NoError])

handleTimeUpdate(c) ==
    Call(SetSt(c, [c.st EXCEPT !.currentTime = c.a.currentTime]), "onTimeUpdate")

handlePlay(c) == Call(SetSt(c, [c.st EXCEPT !.isPlaying = TRUE]), "onPlay")

handlePause(c) == Call(SetSt(c, [c.st EXCEPT !.isPlaying = FALSE]), "onPause")

handleEnded(c) ==
    Call(SetSt(c, [c.st EXCEPT !.isPlaying = FALSE, !.currentTime = 0]), "onEnded")

\* faulty variant: no end-of-stream case
handleError_NoEndOfStream(c) ==
    Call(SetSt(c, [c.st EXCEPT !.isLoading = FALSE, !.canPlay = FALSE,
                               !.error = ErrLoad]),
         "onError")

handleError(c) ==
    IF c.a.error # "none" /\ StrictEq(c.a.currentTime, c.a.duration)
    THEN handleEnded(c)
    ELSE Call(SetSt(c, [c.st EXCEPT !.isLoading = FALSE, !.canPlay = FALSE,
                                    !.error = ErrLoad]),
              "onError")

handleWaiting(c) == SetSt(c, [c.st EXCEPT !.isLoading = TRUE])

handlePlaying(c) == SetSt(c, [c.st EXCEPT !.isLoading = FALSE])

(* useAudioPlayer: controls *)

\* faulty variant: the readiness threshold is HAVE_METADATA
notReady_LowThreshold(a, canPlay) == a.readyState < HAVE_METADATA /\ ~canPlay

\* the readiness test of play(); canPlay is the value the closure captured
notReady(a, canPlay) == a.readyState < HAVE_FUTURE_DATA /\ ~canPlay

\* the catch block of play()
playCatch(c) ==
    Call(SetSt(c, [c.st EXCEPT !.error = ErrPlay, !.isLoading = FALSE,
                               !.canPlay = FALSE]),
         "console.error")

\* play() up to its await
play(c, allowed) ==
    LET c1 == IF c.a.error # "none"
              THEN Call([c EXCEPT !.a = AudioLoad(c.a)], "load")
              ELSE c
    IN IF notReady(c1.a, c.st.canPlay)
       THEN playCatch(Call(c1, "NotReady"))
       ELSE Call([c1 EXCEPT !.a = AudioPlay(c1.a, allowed)], "play")

pause(c) == Call([c EXCEPT !.a = AudioPause(c.a)], "pause")

setPlaybackRateControl(c, rate) ==
    SetSt(Call([c EXCEPT !.a.playbackRate = rate], "setPlaybackRate"),
          [c.st EXCEPT !.playbackRate = rate])

\* the rates 1, 1.5 and 2, in tenths
speeds == <<10, 15, 20>>

\* speeds[(speeds.indexOf(speed) + 1) % speeds.length]
nextSpeed(speed) ==
    LET found == {i \in DOMAIN speeds : speeds[i] = speed}
        currentIndex == IF found = {} THEN 0 - 1
                        ELSE (CHOOSE i \in found : \A j \in found : i <= j) - 1
    IN speeds[((currentIndex + 1) % Len(speeds)) + 1]

\* WhatsAppAudioPlayerAdvanced.handleSpeedChange
AdvhandleSpeedChange(c) ==
    LET c1 == SetSt(c, [c.st EXCEPT !.playbackSpeed = nextSpeed(c.st.playbackSpeed)])
    IN setPlaybackRateControl(c1, c1.st.playbackSpeed)

\* the body of the setup effect; WhatsAppAudioPlayerAdvanced passes its
\* playbackSpeed as the playbackRate option, the default is 1
setupEffect(c, allowed) ==
    LET rate == IF cfg.inlineCb THEN c.st.playbackSpeed ELSE 10
        c1 == [c EXCEPT !.a.playbackRate = rate]
    IN IF cfg.autoPlay THEN play(c1, allowed) ELSE c1

\* seek(time): the argument is assigned as it is
seek(c, time) ==
    [Call(c, "setCurrentTime") EXCEPT !.a = AudioSetCurrentTime(c.a, time),
                                      !.arg = time]

\* WhatsAppAudioPlayerAdvanced.handleWaveformClick
\* clickX = event.clientX - rect.left, width = rect.width
AdvhandleWaveformClick(c, clickX, width) ==
    IF c.st.duration = 0 THEN c
    ELSE seek(c, (clickX * c.st.duration) \div width)

\* faulty variant: toggle always plays
toggle_AlwaysPlay(c, allowed) == play(c, allowed)

toggle(c, allowed) == IF c.st.isPlaying THEN pause(c) ELSE play(c, allowed)

\* the continuation of `await audio.play()`: the catch block on rejection,
\* the end of the try block on fulfilment
playSettled(c, how) ==
    IF how = "res" THEN Call(c, "resolved") ELSE playCatch(Call(c, "rejected"))

hookHandle(type, c) ==
    CASE type = "loadstart" -> handleLoadStart(c)
      [] type = "loadedmetadata" -> handleLoadedMetadata(c)
      [] type = "canplay" -> handleCanPlay(c)
      [] type = "canplaythrough" -> handleCanPlayThrough(c)
      [] type = "timeupdate" -> handleTimeUpdate(c)
      [] type = "play" -> handlePlay(c)
      [] type = "pause" -> handlePause(c)
      [] type = "ended" -> handleEnded(c)
      [] type = "error" -> handleError(c)
      [] type = "waiting" -> handleWaiting(c)
      [] type = "playing" -> handlePlaying(c)
      [] OTHER -> c

\* the event kinds the setup effect listens to
Lifecycle ==
    {"loadstart", "loadedmetadata", "canplay", "canplaythrough", "timeupdate",
     "progress", "play", "pause", "ended", "error", "waiting", "playing"}

\* every kind has a handler registered
Registered == \A k \in Lifecycle : listeners.n[k] > 0

\* faulty variant: the effect returns no cleanup
cleanup_Missing(n) == n

\* the cleanup of the setup effect removes the handlers its run added
cleanup(n) == [k \in Lifecycle |-> IF n[k] > 0 THEN n[k] - 1 ELSE 0]

\* addEventListener for every kind; adding a function that is registered
\* already changes nothing.  The handlers of loadedmetadata, timeupdate,
\* play, pause, ended and error close over a callback option: they are new
\* functions whenever the callback is
addListeners(n) ==
    [k \in Lifecycle |->
        IF \/ n[k] = 0
           \/ /\ cfg.inlineCb
              /\ k \in {"loadedmetadata", "timeupdate", "play", "pause", "ended", "error"}
        THEN n[k] + 1 ELSE n[k]]

\* mounted, the setup effect has not run yet
InitListeners == [mounted |-> TRUE, n |-> [k \in Lifecycle |-> 0]]

\* the element dispatches an event to the handlers registered for its kind
RECURSIVE hookFire(_, _)
hookFire(evs, c) ==
    IF evs = <<>> THEN c
    ELSE hookFire(Tail(evs),
                  IF listeners.n[Head(evs)] > 0 THEN hookHandle(Head(evs), c) ELSE c)

----------------------------------------------------------------------------
(* WhatsAppAudioPlayer: event handlers (closures of the listener effect) *)

WAhandleLoadStart(c) ==
    SetSt(c, [c.st EXCEPT !.isLoading = TRUE, !.canPlay = FALSE, !.error = NoError])

WAhandleLoadedMetadata(c) ==
    Call(SetSt(c, [c.st EXCEPT !.duration = c.a.duration]), "generateWaveformData")

WAhandleCanPlay(c) ==
    SetSt(c, [c.st EXCEPT !.canPlay = TRUE, !.isLoading = FALSE, !.error = NoError])

WAhandleCanPlayThrough(c) ==
    SetSt(c, [c.st EXCEPT !.canPlay = TRUE, !.isLoading = FALSE])

WAhandleTimeUpdate(c) ==
    Call(SetSt(c, [c.st EXCEPT !.currentTime = c.a.currentTime]), "onTimeUpdate")

WAhandlePlay(c) == SetSt(c, [c.st EXCEPT !.isPlaying = TRUE])

WAhandlePause(c) == SetSt(c, [c.st EXCEPT !.isPlaying = FALSE])

WAhandleEnded(c) ==
    Call(SetSt(c, [c.st EXCEPT !.isPlaying = FALSE, !.currentTime = 0]), "onEnded")

\* faulty variant: the error also stops the player
WAhandleError_Stops(c) ==
    IF c.a.error # "none" /\ StrictEq(c.a.currentTime, c.a.duration)
    THEN WAhandleEnded(c)
    ELSE Call(Call(SetSt(c, [c.st EXCEPT !.isLoading = FALSE, !.canPlay = FALSE,
                                         !.error = ErrLoad, !.isPlaying = FALSE]),
                   "console.error"),
              "onError")

WAhandleError(c) ==
    IF c.a.error # "none" /\ StrictEq(c.a.currentTime, c.a.duration)
    THEN WAhandleEnded(c)
    ELSE Call(Call(SetSt(c, [c.st EXCEPT !.isLoading = FALSE, !.canPlay = FALSE,
                                         !.error = ErrLoad]),
                   "console.error"),
              "onError")

WAhandleWaiting(c) == SetSt(c, [c.st EXCEPT !.isLoading = TRUE])

WAhandlePlaying(c) == SetSt(c, [c.st EXCEPT !.isLoading = FALSE])

\* the catch block of handlePlayPause
WAplayCatch(c) ==
    Call(SetSt(c, [c.st EXCEPT !.error = ErrPlay, !.isPlaying = FALSE]),
         "console.error")

\* faulty variant: the continuation flips isPlaying
WAplayResolved_Flip(c) ==
    Call(SetSt(c, [c.st EXCEPT !.isPlaying = ~c.st.isPlaying]), "onPlay")

\* handlePlayPause after `await playPromise`
WAplayResolved(c) == Call(SetSt(c, [c.st EXCEPT !.isPlaying = TRUE]), "onPlay")

\* handlePlayPause up to its await
\* WhatsAppAudioPlayer.handleSpeedChange
WAhandleSpeedChange(c) ==
    LET c1 == SetSt(c, [c.st EXCEPT !.playbackSpeed = nextSpeed(c.st.playbackSpeed)])
    IN Call([c1 EXCEPT !.a.playbackRate = c1.st.playbackSpeed], "setPlaybackRate")

handlePlayPause(c, allowed) ==
    LET c1 == IF c.a.error # "none"
              THEN Call([c EXCEPT !.a = AudioLoad(c.a)], "load")
              ELSE c
    IN IF ~c.st.isPlaying
       THEN IF notReady(c1.a, c.st.canPlay)
            THEN Call(SetSt(c1, [c1.st EXCEPT !.error = ErrNotReady]), "NotReady")
            ELSE Call([c1 EXCEPT !.a = AudioPlay(c1.a, allowed)], "play")
       ELSE Call(SetSt(Call([c1 EXCEPT !.a = AudioPause(c1.a)], "pause"),
                       [c1.st EXCEPT !.isPlaying = FALSE]),
                 "onPause")

\* handleWaveformClick: clickX = event.clientX - rect.left, width = rect.width
WAhandleWaveformClick(c, clickX, width) ==
    IF c.st.duration = 0 THEN c
    ELSE LET newTime == (clickX * c.st.duration) \div width
         IN SetSt([Call(c, "setCurrentTime")
                       EXCEPT !.a = AudioSetCurrentTime(c.a, newTime),
                              !.arg = newTime],
                  [c.st EXCEPT !.currentTime = newTime])

WAplaySettled(c, how) ==
    IF how = "res" THEN WAplayResolved(Call(c, "resolved"))
    ELSE WAplayCatch(Call(c, "rejected"))

WAHandle(type, c) ==
    CASE type = "loadstart" -> WAhandleLoadStart(c)
      [] type = "loadedmetadata" -> WAhandleLoadedMetadata(c)
      [] type = "canplay" -> WAhandleCanPlay(c)
      [] type = "canplaythrough" -> WAhandleCanPlayThrough(c)
      [] type = "timeupdate" -> WAhandleTimeUpdate(c)
      [] type = "play" -> WAhandlePlay(c)
      [] type = "pause" -> WAhandlePause(c)
      [] type = "ended" -> WAhandleEnded(c)
      [] type = "error" -> WAhandleError(c)
      [] type = "waiting" -> WAhandleWaiting(c)
      [] type = "playing" -> WAhandlePlaying(c)
      [] OTHER -> c

RECURSIVE WAFire(_, _)
WAFire(evs, c) ==
    IF evs = <<>> THEN c ELSE WAFire(Tail(evs), WAHandle(Head(evs), c))

----------------------------------------------------------------------------
(* RoundAudioPlayer *)

RoundhandlePlay(c) == Call(SetSt(c, [c.st EXCEPT !.isPlaying = TRUE]), "onPlay")

RoundhandlePause(c) == Call(SetSt(c, [c.st EXCEPT !.isPlaying = FALSE]), "onPause")

RoundhandleEnded(c) ==
    Call(SetSt(c, [c.st EXCEPT !.isPlaying = FALSE, !.currentTime = 0]), "onEnded")

\* `audio.duration || 0`
OrZero(x) == IF x = NaN THEN 0 ELSE x

RoundhandleTimeUpdate(c) ==
    Call(SetSt(c, [c.st EXCEPT !.currentTime = c.a.currentTime,
                               !.duration = OrZero(c.a.duration)]),
         "onListen")

RoundhandleLoadedMetaData(c) ==
    Call(SetSt(c, [c.st EXCEPT !.duration = OrZero(c.a.duration)]), "onLoadedMetaData")

\* the anonymous 'error' listener of componentDidMount
RoundonErrorListener(c) ==
    IF c.a.error # "none" /\ StrictEq(c.a.currentTime, c.a.duration)
    THEN Call(c, "onEnded")
    ELSE Call(c, "onError")

\* faulty variant: no reload of an errored resource
playAudioPromise_NoReload(c, allowed) ==
    Call([c EXCEPT !.a = AudioPlay(c.a, allowed)], "play")

playAudioPromise(c, allowed) ==
    LET c1 == IF c.a.error # "none"
              THEN Call([c EXCEPT !.a = AudioLoad(c.a)], "load")
              ELSE c
    IN Call([c1 EXCEPT !.a = AudioPlay(c1.a, allowed)], "play")

togglePlay(c, allowed) ==
    IF c.a.paused \/ endedPlayback(c.a)
    THEN playAudioPromise(c, allowed)
    ELSE IF ~c.a.paused
         THEN Call([c EXCEPT !.a = AudioPause(c.a)], "pause")
         ELSE c

\* playPromise.then(null).catch(err => onPlayError(new Error(err)))
RoundplaySettled(c, how) ==
    IF how = "res" THEN Call(c, "resolved")
    ELSE Call(Call(c, "rejected"), "onPlayError")

RoundHandle(type, c) ==
    CASE type = "play" -> RoundhandlePlay(c)
      [] type = "pause" -> RoundhandlePause(c)
      [] type = "ended" -> RoundhandleEnded(c)
      [] type = "timeupdate" -> RoundhandleTimeUpdate(c)
      [] type = "loadedmetadata" -> RoundhandleLoadedMetaData(c)
      [] type = "error" -> RoundonErrorListener(c)
      [] type = "canplay" -> Call(c, "onCanPlay")
      [] type = "canplaythrough" -> Call(c, "onCanPlayThrough")
      [] type = "playing" -> Call(c, "onPlaying")
      [] type = "waiting" -> Call(c, "onWaiting")
      [] type = "loadstart" -> Call(c, "onLoadStart")
      [] OTHER -> c

RECURSIVE RoundFire(_, _)
RoundFire(evs, c) ==
    IF evs = <<>> THEN c ELSE RoundFire(Tail(evs), RoundHandle(Head(evs), c))

----------------------------------------------------------------------------
(* WhatsappAudioPlayer (legacy) *)

\* the promise of audio.play() is dropped
togglePlayback(c, allowed) ==
    LET c1 == IF c.st.isPlaying
              THEN Call([c EXCEPT !.a = AudioPause(c.a)], "pause")
              ELSE Call([c EXCEPT !.a = AudioPlay(c.a, allowed)], "play")
    IN SetSt(c1, [c1.st EXCEPT !.isPlaying = ~c.st.isPlaying])

\* updateTime, updateDuration, handleEnded
LegacyHandle(type, c) ==
    CASE type = "timeupdate" -> SetSt(c, [c.st EXCEPT !.currentTime = c.a.currentTime])
      [] type = "loadedmetadata" -> SetSt(c, [c.st EXCEPT !.duration = c.a.duration])
      [] type = "ended" -> SetSt(c, [c.st EXCEPT !.isPlaying = FALSE])
      [] OTHER -> c

RECURSIVE LegacyFire(_, _)
LegacyFire(evs, c) ==
    IF evs = <<>> THEN c ELSE LegacyFire(Tail(evs), LegacyHandle(Head(evs), c))

----------------------------------------------------------------------------
(* ProgressBar *)
(* Positions (currentTimePos) are percentages in hundredths: 5000 = '50.00%' *)

\* (num / den * 100).toFixed(2); 0/0 and NaN operands give 'NaN'
toFixed2Percent(num, den) ==
    IF num = NaN \/ den = NaN \/ den = 0 THEN NaN
    ELSE (2 * 10000 * num + den) \div (2 * den)

\* JavaScript a * b / c on the numbers that occur here
MulDiv(a, b, c) ==
    IF a = NaN \/ b = NaN \/ c = NaN \/ c = 0 THEN NaN ELSE (a * b) \div c

\* srcDuration is not supplied: the duration is the resource's
getDuration(a) == a.duration

\* faulty variant: the relative position is not clamped to the surface
getCurrentProgress_Unclamped(a, posX, width) ==
    IF cfg.src = ""
    THEN [currentTime |-> 0, currentTimePos |-> 0]
    ELSE [currentTime |-> MulDiv(getDuration(a), posX, width),
          currentTimePos |-> toFixed2Percent(posX, width)]

\* posX = getPosX(event) - rect.left, width = rect.width
\* faulty variant: the time is the offset in pixels, not scaled to the duration
getCurrentProgress_Unscaled(a, posX, width) ==
    IF cfg.src = ""
    THEN [currentTime |-> 0, currentTimePos |-> 0]
    ELSE LET relativePos == IF posX < 0 THEN 0 ELSE IF posX > width THEN width ELSE posX
         IN [currentTime |-> IF isFinite(getDuration(a)) THEN relativePos ELSE NaN,
             currentTimePos |-> toFixed2Percent(relativePos, width)]

getCurrentProgress(a, posX, width) ==
    IF cfg.src = ""
    THEN [currentTime |-> 0, currentTimePos |-> 0]
    ELSE LET maxRelativePos == width
             relativePos == IF posX < 0 THEN 0
                            ELSE IF posX > maxRelativePos THEN maxRelativePos
                            ELSE posX
         IN [currentTime |-> MulDiv(getDuration(a), relativePos, maxRelativePos),
             currentTimePos |-> toFixed2Percent(relativePos, maxRelativePos)]

addWindowListeners(p, kind) ==
    IF kind = "mouse" THEN [p EXCEPT !.mouseL = TRUE] ELSE [p EXCEPT !.touchL = TRUE]

removeWindowListeners(p, kind) ==
    IF kind = "mouse" THEN [p EXCEPT !.mouseL = FALSE] ELSE [p EXCEPT !.touchL = FALSE]

handleMouseDownOrTouchStartProgressBar(c, kind, posX, width) ==
    LET tp == getCurrentProgress(c.a, posX, width)
    IN IF isFinite(tp.currentTime)
       THEN [c EXCEPT !.pb = addWindowListeners(
                         [c.pb EXCEPT !.timeOnMouseMove = tp.currentTime,
                                      !.isDraggingProgress = TRUE,
                                      !.currentTimePos = tp.currentTimePos,
                                      !.pointerPos = tp.currentTimePos],
                         kind)]
       ELSE c

handleWindowMouseOrTouchMove(c, posX, width) ==
    IF c.pb.isDraggingProgress
    THEN LET tp == getCurrentProgress(c.a, posX, width)
         IN [c EXCEPT !.pb.timeOnMouseMove = tp.currentTime,
                      !.pb.currentTimePos = tp.currentTimePos,
                      !.pb.pointerPos = tp.currentTimePos]
    ELSE c

\* the seek of handleWindowMouseOrTouchUp when no onSeek hook is supplied;
\* returned = the handler returned or threw before its end
needsReload(a, newTime) ==
    a.readyState = HAVE_NOTHING \/ a.readyState = HAVE_METADATA \/ ~isFinite(newTime)

directSeek(c, newTime, loadThrows) ==
    LET reload == needsReload(c.a, newTime)
        c1 == IF reload THEN Call(c, "load") ELSE c
    IN IF reload /\ loadThrows
       THEN [Call(c1, "onChangeCurrentTimeError") EXCEPT !.returned = TRUE]
       ELSE LET c2 == IF reload THEN [c1 EXCEPT !.a = AudioLoad(c1.a)] ELSE c1
            IN IF ~isFinite(newTime)
               THEN [Call(c2, "TypeError") EXCEPT !.returned = TRUE]
               ELSE [Call(c2, "setCurrentTime")
                        EXCEPT !.a = AudioSetCurrentTime(c2.a, newTime),
                               !.arg = newTime,
                               !.pb.isDraggingProgress = FALSE]

handleWindowMouseOrTouchUp(c, kind, loadThrows) ==
    LET newTime == c.pb.timeOnMouseMove
        c1 == IF cfg.onSeek
              THEN [Call(c, "onSeek") EXCEPT !.pb.isDraggingProgress = FALSE,
                                             !.pb.waitingForSeekCallback = TRUE,
                                             !.arg = newTime,
                                             !.pb.seeking = @ + 1]
              ELSE directSeek(c, newTime, loadThrows)
    IN IF c1.returned THEN c1
       ELSE [c1 EXCEPT !.pb = removeWindowListeners(c1.pb, kind)]

\* onSeek(audio, newTime).then(...): fulfilled / rejected
onSeekFulfilled(c) ==
    [c EXCEPT !.pb.waitingForSeekCallback = FALSE, !.pb.seeking = @ - 1]

onSeekRejected(c) ==
    [Call(c, "unhandledrejection") EXCEPT !.pb.seeking = @ - 1]

\* componentWillUnmount: the listeners on the audio element are removed
componentWillUnmount(c) ==
    [Call(c, "removeAudioListeners") EXCEPT !.pb.mounted = FALSE,
                                            !.pb.listenerOn = 0]

\* initialize(): hasAddedAudioEventListener is true once listeners were added
initialize(c) ==
    IF c.pb.listenerOn = 0
    THEN [c EXCEPT !.pb.listenerOn = c.pb.audioId]
    ELSE c

\* faulty variant: the position follows the resource during a drag
handleAudioTimeUpdate_WhileDragging(c) ==
    IF c.pb.waitingForSeekCallback
    THEN c
    ELSE LET pos == toFixed2Percent(c.a.currentTime, getDuration(c.a))
         IN [c EXCEPT !.pb.currentTimePos = IF pos = NaN THEN 0 ELSE pos]

\* faulty variant: the position follows the resource while a seek callback
\* is awaited
handleAudioTimeUpdate_WhileSeeking(c) ==
    IF c.pb.isDraggingProgress
    THEN c
    ELSE LET pos == toFixed2Percent(c.a.currentTime, getDuration(c.a))
         IN [c EXCEPT !.pb.currentTimePos = IF pos = NaN THEN 0 ELSE pos]

\* the function wrapped by throttle()
\* `${Math.round((100 / den) * num) || 0}%`: the nearest whole percent,
\* halves up; NaN becomes 0
RoundPercent(num, den) ==
    IF num = NaN \/ den = NaN \/ (den = 0 /\ num = 0) THEN 0
    ELSE IF den = 0 THEN NaN
    ELSE (2 * 100 * num + den) \div (2 * den)

\* faulty variant: the width is taken from the end of the range alone
downloadProgress_WidthFromEnd(buffered, duration) ==
    [i \in DOMAIN buffered |->
        [left |-> RoundPercent(buffered[i].start, duration),
         width |-> RoundPercent(buffered[i].end, duration)]]

\* the loop of handleAudioDownloadProgressUpdate
downloadProgress(buffered, duration) ==
    [i \in DOMAIN buffered |->
        [left |-> RoundPercent(buffered[i].start, duration),
         width |-> RoundPercent(buffered[i].end - buffered[i].start, duration)]]

\* the animation flag and its 200 ms timer only drive a CSS transition
handleAudioDownloadProgressUpdate(c) ==
    [c EXCEPT !.pb.downloadProgressArr = downloadProgress(c.a.buffered, getDuration(c.a))]

handleAudioTimeUpdate(c) ==
    IF c.pb.isDraggingProgress \/ c.pb.waitingForSeekCallback
    THEN c
    ELSE LET pos == toFixed2Percent(c.a.currentTime, getDuration(c.a))
         IN [c EXCEPT !.pb.currentTimePos = IF pos = NaN THEN 0 ELSE pos]

----------------------------------------------------------------------------
(* Committing a step *)

\* the setup effect depends on `play` (hence on state.canPlay) and on the
\* handlers (hence on the callbacks: an inline callback changes every render)
effectDeps(c) ==
    cfg.variant = "hook" /\ c.dirty /\ (cfg.inlineCb \/ c.st.canPlay # st.canPlay)

\* ProgressBar listens to timeupdate only: of the queued tasks it sees the
\* timeupdate events, and the play promises (which belong to the player
\* owning the element) have no effect on it
FiresTimeUpdate == {"timeupdate", "pause", "ended"}

RECURSIVE Listened(_)
Listened(q) ==
    IF q = <<>> THEN <<>>
    ELSE IF Head(q).type \in FiresTimeUpdate
            /\ (Len(q) = 1 \/ q[2].type \notin FiresTimeUpdate)
         THEN <<[type |-> "timeupdate", n |-> 0]>> \o Listened(Tail(q))
         ELSE Listened(Tail(q))

Norm(a) ==
    IF cfg.variant = "pb"
    THEN [a EXCEPT !.q = Listened(@), !.pending = 0, !.settle = <<>>,
                   !.paused = @ \/ (endedPlayback(a)
                                     /\ \E i \in DOMAIN a.q : a.q[i].type = "ended")]
    ELSE a

NoBurst == [reqs |-> 0, rises |-> 0]

AtMost2(n) == IF n > 2 THEN 2 ELSE n

\* the history of play requests after a step from (st, audio) that left the
\* state s1, invoked calls1 and ran handler o.  A burst starts with a play
\* attempt made while the player is settled in Paused (Settled); it is over
\* when all its promises are settled, and abandoned when the user pauses,
\* the resource is reloaded, playback ends or the resource fails.
Settled ==
    /\ audio.paused /\ ~st.isPlaying /\ Outstanding(audio) = 0
    /\ \A i \in DOMAIN audio.q : audio.q[i].type \notin {"play", "pause", "ended"}

BurstNext(s1, calls1, o) ==
    LET cur == IF Outstanding(audio) = 0 THEN NoBurst ELSE burst
        played == Count(calls1, "play")
        rise == IF ~st.isPlaying /\ s1.isPlaying THEN 1 ELSE 0
        seq == calls1
        abandoned == \/ \E i \in DOMAIN seq : seq[i] \in {"pause", "load"}
                     \/ o.kind = "event" /\ o.name \in {"ended", "error"}
    IN IF abandoned THEN NoBurst
       ELSE IF cur.reqs = 0
       THEN IF played > 0 /\ Settled THEN [reqs |-> 1, rises |-> 0] ELSE NoBurst
       ELSE [reqs |-> AtMost2(cur.reqs + played), rises |-> AtMost2(cur.rises + rise)]

Commit(c, o) ==
    /\ Fits(Norm(c.a))
    /\ st' = c.st
    /\ audio' = Norm(c.a)
    /\ pb' = c.pb
    /\ calls' = c.calls
    /\ arg' = c.arg
    /\ op' = o
    /\ effectPending' = (effectPending \/ effectDeps(c))
    /\ burst' = BurstNext(c.st, c.calls, o)
    /\ UNCHANGED <<cfg, listeners>>

\* the context of the task at the head of the queue, taken off it
TaskCtx ==
    [Ctx EXCEPT !.a = TaskAudio(audio)]

\* the events of the task at the head of the queue
HeadEvents == TaskEvents(Head(audio.q).type, EndPauses(audio))

HeadOp == [kind |-> "event", name |-> Head(audio.q).type]

\* the context of the promise continuation that runs next
SettleCtx == [Ctx EXCEPT !.a.settle = Tail(@)]

SettleOp == [kind |-> "settled", name |-> Head(audio.settle)]

----------------------------------------------------------------------------
(* useAudioPlayer: actions *)

\* the setup effect of the mount runs before the element's first task
HookEvent ==
    /\ cfg.variant = "hook"
    /\ listeners.mounted => Registered
    /\ audio.q # <<>> /\ audio.settle = <<>>
    /\ Commit(hookFire(HeadEvents, TaskCtx), HeadOp)

HookSettle ==
    /\ cfg.variant = "hook" /\ listeners.mounted
    /\ audio.settle # <<>>
    /\ Commit(playSettled(SettleCtx, Head(audio.settle)), SettleOp)

HookPlay ==
    /\ cfg.variant = "hook" /\ listeners.mounted
    /\ Idle
    /\ \E allowed \in BOOLEAN :
          Commit(play(Ctx, allowed), [kind |-> "cmd", name |-> "play"])

HookPause ==
    /\ cfg.variant = "hook" /\ listeners.mounted
    /\ Idle
    /\ Commit(pause(Ctx), [kind |-> "cmd", name |-> "pause"])

HookToggle ==
    /\ cfg.variant = "hook" /\ listeners.mounted
    /\ Idle
    /\ \E allowed \in BOOLEAN :
          Commit(toggle(Ctx, allowed), [kind |-> "cmd", name |-> "toggle"])

HookSeek ==
    /\ cfg.variant = "hook" /\ listeners.mounted
    /\ Idle
    \* a time before the start, inside, or past the end
    /\ \E time \in {0 - DurSec, DurSec, Duration + DurSec} :
          Commit(seek(Ctx, time), [kind |-> "cmd", name |-> "seek"])

\* a click on the waveform of WhatsAppAudioPlayerAdvanced (the consumer of the
\* hook that passes inline callbacks), inside the laid-out surface
ClickXs == 0..BarWidth

AdvWaveformClick ==
    /\ cfg.variant = "hook" /\ cfg.inlineCb /\ listeners.mounted
    /\ Idle
    /\ \E clickX \in ClickXs :
          Commit(AdvhandleWaveformClick(Ctx, clickX, BarWidth),
                 [kind |-> "cmd", name |-> "click"])

\* the setup effect: cleanup, set properties, autoPlay, add the listeners
\* the speed button of WhatsAppAudioPlayerAdvanced, rendered while
\* isPlaying; the new playbackSpeed is a dependency of the setup effect,
\* which runs again with the render the click causes
AdvSpeedChange ==
    /\ cfg.variant = "hook" /\ cfg.inlineCb /\ listeners.mounted
    /\ st.isPlaying
    /\ Idle
    /\ \E allowed \in BOOLEAN :
          LET c == AdvhandleSpeedChange(Ctx)
          IN Commit(setupEffect([c EXCEPT !.dirty = FALSE], allowed),
                    [kind |-> "cmd", name |-> "speed"])

HookEffect ==
    /\ cfg.variant = "hook" /\ listeners.mounted
    /\ effectPending
    /\ Idle
    /\ \E allowed \in BOOLEAN :
          LET c == setupEffect(Ctx, allowed)
          IN /\ Fits(c.a)
             /\ st' = c.st
             /\ audio' = c.a
             /\ calls' = c.calls
             /\ arg' = c.arg
             /\ op' = [kind |-> "effect", name |-> "setup"]
             /\ effectPending' = effectDeps(c)
             /\ burst' = BurstNext(c.st, c.calls, [kind |-> "effect", name |-> "setup"])
             /\ listeners' = [listeners EXCEPT !.n = addListeners(cleanup(@))]
             /\ UNCHANGED <<cfg, pb>>

\* the component using the hook unmounts: React runs the cleanup
HookUnmount ==
    /\ cfg.variant = "hook" /\ listeners.mounted
    /\ Idle /\ Outstanding(audio) = 0
    /\ listeners' = [mounted |-> FALSE, n |-> cleanup(listeners.n)]
    /\ effectPending' = FALSE
    /\ op' = [kind |-> "unmount", name |-> "hook"]
    /\ calls' = <<>>
    /\ arg' = 0
    /\ burst' = NoBurst
    /\ UNCHANGED <<cfg, audio, st, pb>>

----------------------------------------------------------------------------
(* WhatsAppAudioPlayer: actions *)

WAEvent ==
    /\ cfg.variant = "wa"
    /\ audio.q # <<>> /\ audio.settle = <<>>
    /\ Commit(WAFire(HeadEvents, TaskCtx), HeadOp)

WASettle ==
    /\ cfg.variant = "wa"
    /\ audio.settle # <<>>
    /\ Commit(WAplaySettled(SettleCtx, Head(audio.settle)), SettleOp)

\* a click on the play/pause button, which is disabled while loading and
\* not yet playable
\* the speed button is rendered while isPlaying
WASpeedChange ==
    /\ cfg.variant = "wa"
    /\ st.isPlaying
    /\ Idle
    /\ Commit(WAhandleSpeedChange(Ctx), [kind |-> "cmd", name |-> "speed"])

WAPlayPause ==
    /\ cfg.variant = "wa"
    /\ ~(st.isLoading /\ ~st.canPlay)
    /\ Idle
    /\ \E allowed \in BOOLEAN :
          Commit(handlePlayPause(Ctx, allowed),
                 [kind |-> "cmd", name |-> "playPause"])

WAWaveformClick ==
    /\ cfg.variant = "wa"
    /\ Idle
    /\ \E clickX \in ClickXs :
          Commit(WAhandleWaveformClick(Ctx, clickX, BarWidth),
                 [kind |-> "cmd", name |-> "click"])

\* the src prop changes to a shorter recording: React sets the attribute of
\* the <audio> element, which starts loading the new source
SrcChange ==
    /\ cfg.variant \in {"hook", "wa"} /\ cfg.src = "url" /\ listeners.mounted
    /\ Idle
    /\ Fits(Norm(AudioLoad(audio)))
    /\ cfg' = [cfg EXCEPT !.src = "url2"]
    /\ audio' = Norm(AudioLoad(audio))
    /\ op' = [kind |-> "env", name |-> "src"]
    /\ calls' = <<>>
    /\ arg' = 0
    /\ burst' = NoBurst
    /\ effectPending' = (cfg.variant = "hook")
    /\ UNCHANGED <<st, pb, listeners>>

----------------------------------------------------------------------------
(* RoundAudioPlayer: actions *)

RoundEvent ==
    /\ cfg.variant = "round"
    /\ audio.q # <<>> /\ audio.settle = <<>>
    /\ Commit(RoundFire(HeadEvents, TaskCtx), HeadOp)

RoundSettle ==
    /\ cfg.variant = "round"
    /\ audio.settle # <<>>
    /\ Commit(RoundplaySettled(SettleCtx, Head(audio.settle)), SettleOp)

RoundTogglePlay ==
    /\ cfg.variant = "round"
    /\ Idle
    /\ \E allowed \in BOOLEAN :
          Commit(togglePlay(Ctx, allowed),
                 [kind |-> "cmd", name |-> "togglePlay"])

----------------------------------------------------------------------------
(* WhatsappAudioPlayer (legacy): actions *)

LegacyEvent ==
    /\ cfg.variant = "legacy"
    /\ audio.q # <<>> /\ audio.settle = <<>>
    /\ Commit(LegacyFire(HeadEvents, TaskCtx), HeadOp)

\* nothing continues after the play promise; a rejection stays unhandled
LegacySettle ==
    /\ cfg.variant = "legacy"
    /\ audio.settle # <<>>
    /\ Commit(IF Head(audio.settle) = "res" THEN SettleCtx
              ELSE Call(SettleCtx, "unhandledrejection"),
              SettleOp)

LegacyTogglePlayback ==
    /\ cfg.variant = "legacy"
    /\ Idle
    /\ \E allowed \in BOOLEAN :
          Commit(togglePlayback(Ctx, allowed),
                 [kind |-> "cmd", name |-> "togglePlayback"])

----------------------------------------------------------------------------
(* ProgressBar: actions *)

Kinds == {"mouse", "touch"}
\* pointer offsets from the surface's left edge: left of it, inside, right of it
PosXs == {0 - 1} \cup 1..(BarWidth - 1) \cup {BarWidth + 1}
\* the surface not laid out (width 0, where the offset makes no difference)
\* or laid out
Pointers == {[posX |-> 1, width |-> 0]} \cup [posX : PosXs, width : {BarWidth}]

PBDown ==
    /\ cfg.variant = "pb" /\ pb.mounted
    /\ \E kind \in Kinds, p \in Pointers :
          Commit(handleMouseDownOrTouchStartProgressBar(Ctx, kind, p.posX, p.width),
                 [kind |-> "down", name |-> kind])

\* window listeners only run while they are registered
Listening(kind) == IF kind = "mouse" THEN pb.mouseL ELSE pb.touchL

PBMove ==
    /\ cfg.variant = "pb" /\ pb.mounted
    /\ \E kind \in Kinds, p \in Pointers :
          /\ Listening(kind)
          /\ Commit(handleWindowMouseOrTouchMove(Ctx, p.posX, p.width),
                    [kind |-> "move", name |-> kind])

PBUp ==
    /\ cfg.variant = "pb" /\ pb.mounted
    /\ Idle
    /\ pb.seeking < MaxPending
    /\ \E kind \in Kinds, loadThrows \in BOOLEAN :
          /\ Listening(kind)
          /\ Commit(handleWindowMouseOrTouchUp(Ctx, kind, loadThrows),
                    [kind |-> "up", name |-> kind])

PBSeekSettled ==
    /\ cfg.variant = "pb" /\ pb.mounted
    /\ pb.seeking > 0
    /\ \E ok \in BOOLEAN :
          Commit(IF ok THEN onSeekFulfilled(Ctx) ELSE onSeekRejected(Ctx),
                 [kind |-> "seek", name |-> IF ok THEN "fulfilled" ELSE "rejected"])

\* a media event reaches the bar; throttle() decides whether a timeupdate
\* runs the wrapped function
PBEvent ==
    /\ cfg.variant = "pb" /\ pb.mounted
    /\ pb.listenerOn = pb.audioId
    /\ audio.q # <<>>
    /\ \E pass \in BOOLEAN :
          Commit(IF pass THEN handleAudioTimeUpdate(TaskCtx) ELSE TaskCtx,
                 [kind |-> "event", name |-> IF pass THEN "timeupdate" ELSE "throttled"])

\* the ranges a resource of the given duration can have buffered: at most
\* two, ordered and apart
BufferedRanges(duration) ==
    LET T == 0..duration
    IN {<<>>}
       \cup {<<[start |-> s, end |-> e]>> : s \in T, e \in T}
       \cup {<<[start |-> r[1], end |-> r[2]], [start |-> r[3], end |-> r[4]]>> :
                r \in {x \in [1..4 -> T] : x[1] < x[2] /\ x[2] < x[3] /\ x[3] < x[4]}}

\* the resource has fetched data and fires progress
PBProgress ==
    /\ cfg.variant = "pb" /\ pb.mounted
    /\ pb.listenerOn = pb.audioId
    /\ Idle
    /\ audio.readyState >= HAVE_METADATA
    /\ \E b \in BufferedRanges(audio.duration) :
          /\ \A i \in DOMAIN b : b[i].start < b[i].end
          /\ Commit(handleAudioDownloadProgressUpdate([Ctx EXCEPT !.a.buffered = b]),
                    [kind |-> "event", name |-> "progress"])

PBUnmount ==
    /\ cfg.variant = "pb" /\ pb.mounted
    /\ Idle
    /\ Commit(componentWillUnmount(Ctx), [kind |-> "unmount", name |-> "pb"])

\* the player that owns the audio element plays / pauses it
PBHostPlay ==
    /\ cfg.variant = "pb" /\ pb.mounted
    /\ Idle
    /\ Commit([Ctx EXCEPT !.a = AudioPlay(audio, TRUE)],
              [kind |-> "host", name |-> "play"])

PBHostPause ==
    /\ cfg.variant = "pb" /\ pb.mounted
    /\ Idle
    /\ ~audio.paused
    /\ Commit([Ctx EXCEPT !.a = AudioPause(audio)], [kind |-> "host", name |-> "pause"])

----------------------------------------------------------------------------
(* The playback resource: what the browser does on its own *)

\* the resource changes while at most one earlier task is still queued with
\* room to spare: media-element tasks are dispatched promptly, the races that
\* matter are those of the commands with the queued tasks
Env(a, name) ==
    /\ Idle /\ Len(audio.q) + 2 <= MaxQ /\ Fits(Norm(a))
    /\ audio' = Norm(a)
    /\ op' = [kind |-> "env", name |-> "resource"]
    /\ calls' = <<>>
    /\ arg' = 0
    /\ burst' = BurstNext(st, <<>>, [kind |-> "env", name |-> "resource"])
    /\ UNCHANGED <<cfg, st, pb, effectPending, listeners>>

\* metadata arrives (the recording behind "url2" is the shorter one); a
\* default playback start position is sought, clamped
EnvMetadata ==
    /\ audio.readyState = HAVE_NOTHING /\ audio.error = "none"
    /\ cfg.src # ""
    /\ LET d == IF cfg.src = "url2" THEN DurSec ELSE Duration
       IN Env(Enq([audio EXCEPT !.readyState = HAVE_METADATA, !.duration = d,
                               !.currentTime = IF @ > d THEN d
                                               ELSE IF @ < 0 THEN 0 ELSE @],
                  "loadedmetadata", 0), "metadata")

\* more data arrives: readyState goes up one level
EnvData ==
    /\ audio.readyState >= HAVE_METADATA /\ audio.readyState < HAVE_ENOUGH_DATA
    /\ audio.error = "none"
    /\ LET r == audio.readyState + 1
           a1 == [audio EXCEPT !.readyState = r]
       IN Env(IF r = HAVE_FUTURE_DATA
              THEN LET a2 == Enq(a1, "canplay", 0)
                   IN IF ~a2.paused
                      THEN Enq([a2 EXCEPT !.pending = 0], "playing", a2.pending)
                      ELSE a2
              ELSE IF r = HAVE_ENOUGH_DATA THEN Enq(a1, "canplaythrough", 0)
              ELSE a1,
              "data")

\* the buffer runs dry
EnvStall ==
    /\ audio.readyState >= HAVE_FUTURE_DATA /\ audio.error = "none"
    /\ LET a1 == [audio EXCEPT !.readyState = HAVE_FUTURE_DATA - 1]
       IN Env(IF ~a1.paused /\ ~endedPlayback(a1) THEN Enq(a1, "waiting", 0) ELSE a1,
              "stall")

\* playback advances, observed at the positions the surface's pixels map to;
\* reaching the end queues the end-of-playback task
Positions == {k * DurSec : k \in 0..BarWidth}

EnvAdvance ==
    /\ ~audio.paused /\ audio.readyState >= HAVE_FUTURE_DATA /\ audio.error = "none"
    /\ audio.currentTime < audio.duration
    /\ \E t \in Positions :
          /\ t > audio.currentTime /\ t <= audio.duration
          /\ Env(Enq([audio EXCEPT !.currentTime = t],
                  IF t = audio.duration THEN "ended" ELSE "timeupdate", 0),
              "advance")

\* the resource fails: no usable source (before metadata) or a fatal
\* network/decode error (after it)
EnvError ==
    /\ audio.error = "none"
    /\ Env(IF audio.readyState = HAVE_NOTHING
           THEN Enq([audio EXCEPT !.error = "src", !.pending = 0], "error", audio.pending)
           ELSE Enq([audio EXCEPT !.error = "decode"], "error", 0),
           "error")

\* the stream breaks off at its end: the position reaches the duration and
\* the resource reports a fatal error in place of the end of playback, the
\* case the error listeners test for
EnvErrorAtEnd ==
    /\ ~audio.paused /\ audio.readyState >= HAVE_FUTURE_DATA /\ audio.error = "none"
    /\ audio.currentTime < audio.duration
    /\ Env(Enq([audio EXCEPT !.currentTime = audio.duration, !.error = "decode"],
               "error", 0),
           "error")

----------------------------------------------------------------------------
InitAudio ==
    [readyState |-> HAVE_NOTHING, error |-> "none", paused |-> TRUE,
     currentTime |-> 0, duration |-> NaN, pending |-> 0,
     playbackRate |-> 10,
     buffered |-> <<>>,       \* TimeRanges: ordered, disjoint [start, end]
     q |-> <<>>, settle |-> <<>>]

InitSt ==
    [isPlaying |-> FALSE, currentTime |-> 0, duration |-> 0,
     isLoading |-> TRUE, canPlay |-> FALSE, error |-> NoError,
     playbackRate |-> 10,     \* the hook's state.playbackRate
     playbackSpeed |-> 10]    \* the player's playbackSpeed

InitPb ==
    [isDraggingProgress |-> FALSE, currentTimePos |-> 0,
     waitingForSeekCallback |-> FALSE, timeOnMouseMove |-> 0,
     mouseL |-> FALSE, touchL |-> FALSE,
     mounted |-> TRUE,
     downloadProgressArr |-> <<>>,   \* [left, width] in whole percent
     audioId |-> 1,        \* the element given in props.audio
     listenerOn |-> 1,     \* this.audio while its listeners are registered, else 0
     seeking |-> 0,        \* onSeek promises not yet settled
     pointerPos |-> 0]     \* the position the last pointer-down/move computed

\* the component mounts again: a new element, a new instance of the hook
HookMount ==
    /\ cfg.variant = "hook" /\ ~listeners.mounted
    /\ audio' = Enq(InitAudio, "loadstart", 0)
    /\ st' = InitSt
    /\ listeners' = InitListeners
    /\ effectPending' = TRUE
    /\ op' = [kind |-> "init", name |-> "mount"]
    /\ calls' = <<>>
    /\ arg' = 0
    /\ burst' = NoBurst
    /\ UNCHANGED <<cfg, pb>>

\* the host renders the bar with a different audio element;
\* componentDidUpdate calls initialize()
PBAudioChange ==
    /\ cfg.variant = "pb" /\ pb.mounted
    /\ Idle
    /\ Commit(initialize([Ctx EXCEPT !.pb.audioId = 3 - @,
                                     !.a = Enq(InitAudio, "loadstart", 0)]),
              [kind |-> "update", name |-> "audio"])

Configs ==
    {c \in [variant : Variants, autoPlay : BOOLEAN, inlineCb : BOOLEAN,
            onSeek : BOOLEAN, src : {"", "url"}] :
        /\ c.variant # "hook" => ~c.autoPlay /\ ~c.inlineCb
        /\ c.variant # "pb" => ~c.onSeek /\ c.src = "url"}

Mounted(variants) ==
    /\ cfg \in {c \in Configs : c.variant \in variants}
    /\ audio = Norm(Enq(InitAudio, "loadstart", 0))
    /\ st = InitSt
    /\ pb = InitPb
    /\ effectPending = (cfg.variant = "hook")
    /\ listeners = InitListeners
    /\ op = [kind |-> "init", name |-> "mount"]
    /\ calls = <<>>
    /\ arg = 0
    /\ burst = NoBurst

\* the players
Init == Mounted({"hook", "wa", "round", "legacy"})

\* the progress bar
InitPB == Mounted({"pb"})

Next ==
    \/ HookEvent
    \/ HookSettle
    \/ HookPlay
    \/ HookPause
    \/ HookToggle
    \/ HookEffect
    \/ WAEvent
    \/ WASettle
    \/ WAPlayPause
    \/ RoundEvent
    \/ RoundSettle
    \/ RoundTogglePlay
    \/ LegacyEvent
    \/ LegacySettle
    \/ LegacyTogglePlayback
    \/ EnvMetadata
    \/ EnvData
    \/ EnvStall
    \/ EnvAdvance
    \/ EnvError
    \/ EnvErrorAtEnd

NextPB ==
    \/ PBDown
    \/ PBMove
    \/ PBUp
    \/ PBSeekSettled
    \/ PBEvent
    \/ PBUnmount
    \/ PBHostPlay
    \/ PBHostPause
    \/ EnvMetadata
    \/ EnvData
    \/ EnvStall
    \/ EnvAdvance

\* the seek surfaces of the players, without autoPlay: WhatsAppAudioPlayer,
\* and the hook as WhatsAppAudioPlayerAdvanced uses it
InitSeek ==
    /\ Mounted({"hook", "wa"})
    /\ ~cfg.autoPlay
    /\ cfg.variant = "hook" => cfg.inlineCb

NextSeek ==
    \/ HookEvent
    \/ HookSettle
    \/ HookPlay
    \/ HookSeek
    \/ AdvWaveformClick
    \/ HookEffect
    \/ WAEvent
    \/ WASettle
    \/ WAPlayPause
    \/ WAWaveformClick
    \/ SrcChange
    \/ EnvMetadata
    \/ EnvData
    \/ EnvStall
    \/ EnvAdvance
    \/ EnvError

\* the speed buttons: WhatsAppAudioPlayer, and the hook as
\* WhatsAppAudioPlayerAdvanced uses it
InitRate ==
    /\ Mounted({"hook", "wa"})
    /\ cfg.variant = "hook" => cfg.inlineCb

NextRate ==
    \/ HookEvent
    \/ HookSettle
    \/ HookToggle
    \/ HookEffect
    \/ AdvSpeedChange
    \/ WAEvent
    \/ WASettle
    \/ WAPlayPause
    \/ WASpeedChange
    \/ EnvMetadata
    \/ EnvData
    \/ EnvStall
    \/ EnvAdvance
    \/ EnvError

\* the bar's listeners on the audio element: progress events, a change of
\* the element, unmount
NextBuf ==
    \/ PBProgress
    \/ PBAudioChange
    \/ PBUnmount
    \/ EnvMetadata
    \/ EnvData

Spec == Init /\ [][Next]_vars

SpecBuf == InitPB /\ [][NextBuf]_vars

SpecRate == InitRate /\ [][NextRate]_vars

SpecSeek == InitSeek /\ [][NextSeek]_vars

\* the hook through mounts, effect runs and unmounts
NextFx ==
    \/ HookEvent
    \/ HookSettle
    \/ HookPlay
    \/ HookPause
    \/ HookEffect
    \/ HookUnmount
    \/ HookMount
    \/ EnvMetadata
    \/ EnvData
    \/ EnvStall
    \/ EnvAdvance
    \/ EnvError

SpecFx == Mounted({"hook"}) /\ [][NextFx]_vars

SpecPB == InitPB /\ [][NextPB]_vars

\* the progress bar under the scheduling of the event loop: a settled
\* promise of onSeek has its continuation run, a queued task of the element
\* is dispatched; the user and the resource are under no obligation
SpecPBLive ==
    /\ InitPB /\ [][NextPB]_vars
    /\ WF_vars(PBSeekSettled)
    /\ WF_vars(PBEvent)

----------------------------------------------------------------------------
(* Properties *)

Range(s) == {s[i] : i \in DOMAIN s}

\* the step runs play() of the hook: called directly, through toggle() while
\* not playing, or by the setup effect under autoPlay
HookPlayStep ==
    /\ cfg.variant = "hook"
    /\ \/ op'.kind = "cmd" /\ op'.name = "play"
       \/ op'.kind = "cmd" /\ op'.name = "toggle" /\ ~st.isPlaying
       \/ op'.kind = "effect" /\ cfg.autoPlay

\* the step runs WhatsAppAudioPlayer.handlePlayPause
WAPlayPauseStep == cfg.variant = "wa" /\ op'.kind = "cmd" /\ op'.name = "playPause"

\* the step dispatches the resource's error event to the hook / WhatsAppAudioPlayer
ErrorEventStep ==
    cfg.variant \in {"hook", "wa"} /\ op'.kind = "event" /\ op'.name = "error"

\* the end-of-stream condition the error handlers test
AtEndOfStream == audio.error # "none" /\ StrictEq(audio.currentTime, audio.duration)

(* C1: in useAudioPlayer.play() and in WhatsAppAudioPlayer.handlePlayPause   *)
(* (when not playing), if the resource's readyState is below                *)
(* HAVE_FUTURE_DATA and canPlay is false, audio.play() is not invoked and   *)
(* the call ends in the not-ready failure, which leaves an error set.       *)
C1_NotReadyBlocksPlay ==
    [][(HookPlayStep \/ (WAPlayPauseStep /\ ~st.isPlaying))
       /\ audio.readyState < HAVE_FUTURE_DATA /\ ~st.canPlay
       => /\ "play" \notin Range(calls')
          /\ "NotReady" \in Range(calls')
          /\ st'.error = IF cfg.variant = "hook" THEN ErrPlay ELSE ErrNotReady]_vars

C1_Witness ==
    /\ cfg.variant = "wa" /\ op.kind = "cmd" /\ op.name = "playPause"
    /\ "NotReady" \in Range(calls) /\ "play" \notin Range(calls)
    /\ st.error = ErrNotReady

(* C2: ProgressBar: while isDraggingProgress is true the displayed position *)
(* (currentTimePos) is the one computed from the most recent pointer-down   *)
(* or pointer-move of the session; a timeupdate does not change it.         *)
C2_DragPositionHeld ==
    pb.isDraggingProgress => pb.currentTimePos = pb.pointerPos

C2_Witness ==
    /\ pb.isDraggingProgress
    /\ op.kind = "event" /\ op.name = "timeupdate"
    /\ toFixed2Percent(audio.currentTime, getDuration(audio)) \notin {NaN, pb.currentTimePos}

\* the primitive a pointer release commits the seek with
CommitName == IF cfg.onSeek THEN "onSeek" ELSE "setCurrentTime"

C4_ErrorAtEndIsEnded ==
    [][ErrorEventStep /\ AtEndOfStream
       => /\ ~st'.isPlaying /\ st'.currentTime = 0
          /\ Count(calls', "onEnded") = 1
          /\ st'.error = st.error /\ st'.canPlay = st.canPlay
          /\ st'.isLoading = st.isLoading
          /\ "onError" \notin Range(calls')]_vars

C4_Witness ==
    /\ cfg.variant = "hook" /\ op.kind = "event" /\ op.name = "error"
    /\ "onEnded" \in Range(calls)
    /\ st.canPlay /\ st.error = NoError /\ ~st.isPlaying /\ st.currentTime = 0

(* C5: hook and WhatsAppAudioPlayer: an error event that is not at the end  *)
(* of the stream sets isLoading = false, canPlay = false and                *)
(* error = "Failed to load audio", invokes onError exactly once, and leaves *)
(* isPlaying, currentTime and duration unchanged.                           *)
C5_ErrorEventSetsError ==
    [][ErrorEventStep /\ ~AtEndOfStream
       => /\ ~st'.isLoading /\ ~st'.canPlay /\ st'.error = ErrLoad
          /\ Count(calls', "onError") = 1
          /\ st'.isPlaying = st.isPlaying
          /\ st'.currentTime = st.currentTime
          /\ st'.duration = st.duration]_vars

C5_Witness ==
    /\ cfg.variant = "wa" /\ op.kind = "event" /\ op.name = "error"
    /\ "onError" \in Range(calls)
    /\ st.error = ErrLoad /\ st.isPlaying /\ st.currentTime > 0

\* the step runs toggle() of the hook
ToggleStep == cfg.variant = "hook" /\ op'.kind = "cmd" /\ op'.name = "toggle"

(* C6 as stated: toggle() called while playing leaves isPlaying false when  *)
(* it returns; called while paused it issues exactly one play attempt on    *)
(* the resource.                                                            *)
C6_ToggleSynchronous ==
    [][ToggleStep
       => IF st.isPlaying
          THEN ~st'.isPlaying
          ELSE Count(calls', "play") = 1]_vars

(* C6 amended: toggle() called while isPlaying pauses the resource before   *)
(* it returns (audio.paused is true) and leaves isPlaying true; isPlaying   *)
(* becomes false when the resource's pause event is handled.  Called while  *)
(* not playing it makes one play attempt, or none when the readiness check  *)
(* refuses.                                                                 *)
C6_TogglePausesResource ==
    [][/\ ToggleStep
          => IF st.isPlaying
             THEN calls' = <<"pause">> /\ audio'.paused /\ st' = st
             ELSE /\ "pause" \notin Range(calls')
                  /\ Count(calls', "play") <= 1
                  /\ Count(calls', "play") = 0 <=> "NotReady" \in Range(calls')
       /\ cfg.variant = "hook" /\ op'.kind = "event" /\ op'.name = "pause"
          => ~st'.isPlaying]_vars

C6_Witness ==
    /\ cfg.variant = "hook" /\ op.kind = "cmd" /\ op.name = "toggle"
    /\ calls = <<"pause">> /\ audio.paused /\ st.isPlaying
    /\ \E i \in DOMAIN audio.q : audio.q[i].type = "pause"

(* C7: when play is requested two or more times before the first play       *)
(* promise settles (no pause, reload, end of playback or resource error in  *)
(* between), isPlaying goes from false to true at most once, and exactly    *)
(* once by the time a play promise is fulfilled.                            *)
C7_OneTransitionPerBurst ==
    burst.reqs >= 2
       => /\ burst.rises <= 1
          /\ op.kind = "settled" /\ op.name = "res"
                => burst.rises = 1 /\ st.isPlaying

C7_Witness ==
    /\ cfg.variant = "wa"
    /\ burst.reqs >= 2 /\ burst.rises = 1
    /\ op.kind = "settled" /\ op.name = "res"
    /\ audio.settle = <<>> /\ Outstanding(audio) = 0

(* C8: hook: when pause() is called while a play() is pending, the          *)
(* rejection of that play promise is swallowed: it does not set error and   *)
(* leaves canPlay and isLoading as they were.                               *)
C8_AbortedPlaySwallowed ==
    [][cfg.variant = "hook" /\ op'.kind = "settled" /\ op'.name = "AbortError:pause"
       => /\ st'.error = st.error
          /\ st'.canPlay = st.canPlay
          /\ st'.isLoading = st.isLoading]_vars

(* C9: hook play() and WhatsAppAudioPlayer.handlePlayPause: when the play   *)
(* promise rejects, error becomes "Failed to play audio", isPlaying is      *)
(* false afterwards and the rejection is forwarded to the external error    *)
(* callback (onError).                                                      *)
C9_RejectionReported ==
    [][cfg.variant \in {"hook", "wa"} /\ op'.kind = "settled" /\ op'.name # "res"
       => /\ st'.error = ErrPlay
          /\ ~st'.isPlaying
          /\ "onError" \in Range(calls')]_vars

\* the step runs one of the play paths
PlayPathStep ==
    \/ HookPlayStep
    \/ WAPlayPauseStep
    \/ /\ cfg.variant = "round" /\ op'.kind = "cmd" /\ op'.name = "togglePlay"
       /\ (audio.paused \/ endedPlayback(audio))

(* C10: every play path (hook play(), WhatsAppAudioPlayer.handlePlayPause,  *)
(* RoundAudioPlayer.playAudioPromise): if the resource has an error when    *)
(* play is requested, load() is issued before audio.play() is invoked; no   *)
(* load() is issued when the resource has no error.                         *)
C10_ReloadBeforePlay ==
    [][PlayPathStep
       => IF audio.error # "none"
          THEN /\ Count(calls', "load") = 1
               /\ Before(calls', "load", "play")
               /\ calls'[1] = "load"
          ELSE "load" \notin Range(calls')]_vars

C10_Witness ==
    /\ cfg.variant = "round" /\ op.kind = "cmd" /\ op.name = "togglePlay"
    /\ calls = <<"load", "play">>
    /\ audio.error = "none" /\ audio.readyState = HAVE_NOTHING


\* a step of controls.seek, called directly or by the waveform click
SeekStep ==
    /\ cfg.variant = "hook"
    /\ op'.kind = "cmd" /\ op'.name \in {"seek", "click"}
    /\ Count(calls', "setCurrentTime") = 1

(* C11: useAudioPlayer.seek(time), whatever its argument, and the waveform  *)
(* click of WhatsAppAudioPlayerAdvanced that calls it, leave the resource's *)
(* currentTime within [0, duration] whenever the duration is known.         *)
C11_SeekClamped ==
    [][SeekStep /\ st.duration # 0
       => 0 <= audio'.currentTime /\ audio'.currentTime <= st.duration]_vars


(* C12: useAudioPlayer and WhatsAppAudioPlayer: in every reachable state in *)
(* which the duration is known, 0 <= currentTime <= duration, whatever      *)
(* timeupdate, loadedmetadata, ended, seek, click and source-change steps   *)
(* led to it.                                                               *)
C12_TimeWithinDuration ==
    cfg.variant \in {"hook", "wa"} /\ st.duration # 0
        => 0 <= st.currentTime /\ st.currentTime <= st.duration


(* C13: ProgressBar: at most one drag session is active at any time: for    *)
(* any interleaving of mouse-down, touch-start, mouse-up and touch-end the  *)
(* window's mouse listener pair and its touch listener pair are never       *)
(* registered at the same time.                                             *)
C13_OneListenerPair == ~(pb.mouseL /\ pb.touchL)


(* C14: ProgressBar: a drag session never leaks listeners: when the up      *)
(* handler has finished, on every path through it, the window listeners of  *)
(* its input kind are no longer registered, and no window listener remains  *)
(* registered after the component has unmounted.                            *)
C14_NoListenerLeft ==
    [][/\ op'.kind = "up" /\ op'.name = "mouse" => ~pb'.mouseL
       /\ op'.kind = "up" /\ op'.name = "touch" => ~pb'.touchL
       /\ op'.kind = "unmount" => ~pb'.mouseL /\ ~pb'.touchL]_vars


(* C15: ProgressBar with an onSeek hook: when the promise onSeek returned    *)
(* rejects, the failure is delivered to onChangeCurrentTimeError, the bar   *)
(* does not assign audio.currentTime, and no failure is left uncaught.      *)
C15_RejectionDelivered ==
    [][cfg.onSeek /\ op'.kind = "seek" /\ op'.name = "rejected"
       => /\ "onChangeCurrentTimeError" \in Range(calls')
          /\ "setCurrentTime" \notin Range(calls')
          /\ "unhandledrejection" \notin Range(calls')]_vars


\* the position a timeupdate handler computes from the resource
ResourcePos(a) ==
    LET pos == toFixed2Percent(a.currentTime, getDuration(a))
    IN IF pos = NaN THEN 0 ELSE pos

\* the step runs the timeupdate handler of a bar with an onSeek hook
SeekBarTimeUpdate == cfg.onSeek /\ op'.kind = "event" /\ op'.name = "timeupdate"

(* C16 as stated: ProgressBar with an onSeek hook: while                    *)
(* waitingForSeekCallback is true (from pointer-up until the hook's promise *)
(* resolves) no timeupdate changes currentTimePos; once it is false again   *)
(* the next timeupdate sets currentTimePos from the resource's currentTime. *)
C16_NextTimeUpdateFollows ==
    [][SeekBarTimeUpdate
       => /\ pb.waitingForSeekCallback => pb'.currentTimePos = pb.currentTimePos
          /\ op.kind = "seek" /\ op.name = "fulfilled"
                => pb'.currentTimePos = ResourcePos(audio')]_vars

(* C16 amended: while waitingForSeekCallback is true no timeupdate changes  *)
(* currentTimePos; once it is false again, a timeupdate that reaches the    *)
(* handler sets currentTimePos from the resource's currentTime unless a     *)
(* drag is in progress, in which case it leaves the position alone.         *)
C16_TimeUpdateSuppressed ==
    [][SeekBarTimeUpdate
       => IF pb.waitingForSeekCallback \/ pb.isDraggingProgress
          THEN pb'.currentTimePos = pb.currentTimePos
          ELSE pb'.currentTimePos = ResourcePos(audio')]_vars

\* a timeupdate during the wait, with the resource elsewhere, then one after
\* the promise resolved
C16_Witness ==
    /\ cfg.onSeek /\ op.kind = "event" /\ op.name = "timeupdate"
    /\ pb.waitingForSeekCallback /\ ~pb.isDraggingProgress
    /\ pb.currentTimePos # ResourcePos(audio)


(* C17: ProgressBar without an onSeek hook: at pointer-up, when the         *)
(* resource's readyState is HAVE_NOTHING or HAVE_METADATA or the target     *)
(* time is not finite, the handler reloads the resource, reports through    *)
(* onChangeCurrentTimeError and does not assign audio.currentTime; in every *)
(* other case it assigns audio.currentTime exactly once and does not        *)
(* reload.                                                                  *)
C17_ReloadSkipsAssignment ==
    [][op'.kind = "up" /\ ~cfg.onSeek
       => IF needsReload(audio, pb.timeOnMouseMove)
          THEN /\ "load" \in Range(calls')
               /\ "onChangeCurrentTimeError" \in Range(calls')
               /\ "setCurrentTime" \notin Range(calls')
          ELSE /\ Count(calls', "setCurrentTime") = 1
               /\ "load" \notin Range(calls')]_vars


\* the duration the progress bar works with is not known
DurationUnknown == ~isFinite(getDuration(audio)) \/ getDuration(audio) = 0

(* C18: on every seek surface, an interaction made while the duration is    *)
(* unknown (0 or not finite) is a no-op: no drag session starts, no window  *)
(* listener is registered, the resource's currentTime is not assigned and   *)
(* no seek hook is called.  Stated for the pointer-down of ProgressBar.     *)
C18_UnknownDurationNoOp ==
    [][op'.kind = "down" /\ DurationUnknown
       => /\ pb'.isDraggingProgress = pb.isDraggingProgress
          /\ pb'.mouseL = pb.mouseL /\ pb'.touchL = pb.touchL
          /\ audio'.currentTime = audio.currentTime
          /\ calls' = <<>>]_vars


\* the events that may end loading
EndsLoading == {"canplay", "canplaythrough", "playing", "error"}

(* C19: useAudioPlayer and WhatsAppAudioPlayer: loading does not spin       *)
(* forever, and isLoading goes from true to false only in the handler of    *)
(* one of the events canplay, canplaythrough, playing or error.             *)
C19_LoadingEndsByEvent ==
    [][cfg.variant \in {"hook", "wa"} /\ st.isLoading /\ ~st'.isLoading
       => op'.kind = "event" /\ op'.name \in EndsLoading]_vars


\* one handler per kind once the mount's effect has run, none after unmount
OneHandlerPerKind ==
    IF listeners.mounted
    THEN \/ \A k \in Lifecycle : listeners.n[k] = 1
         \/ effectPending /\ \A k \in Lifecycle : listeners.n[k] = 0
    ELSE \A k \in Lifecycle : listeners.n[k] = 0

(* C20: useAudioPlayer: through mounts, re-runs of the setup effect and      *)
(* unmounts, each of the 12 lifecycle event kinds has exactly one handler   *)
(* registered while the hook is mounted (once the effect of the mount has   *)
(* run) and none after unmount; an event dispatched after the cleanup runs  *)
(* no handler of the hook.                                                  *)
C20_OneHandlerPerKind ==
    /\ [](cfg.variant = "hook" => OneHandlerPerKind)
    /\ [][cfg.variant = "hook" /\ ~listeners.mounted /\ op'.kind = "event"
            => st' = st /\ calls' = <<>>]_vars

\* an event the element fires after the hook, which had handled the
\* metadata, was unmounted
C20_Witness ==
    /\ cfg.variant = "hook" /\ cfg.inlineCb
    /\ ~listeners.mounted /\ op.kind = "event" /\ op.name = "canplay"
    /\ st.duration # 0 /\ ~st.canPlay
    /\ \A k \in Lifecycle : listeners.n[k] = 0


\* no task of the element is queued and no promise continuation is due
Quiescent == audio.q = <<>> /\ audio.settle = <<>>

\* the resource is playing: not paused and not at its end
ResourcePlaying == ~audio.paused /\ ~endedPlayback(audio)

(* C21: in every player variant, once all pending resource events and       *)
(* promise settlements have been processed, isPlaying is true exactly when  *)
(* the resource is playing (not paused and not ended).                      *)
C21_IsPlayingMirrorsResource ==
    Quiescent => (st.isPlaying <=> ResourcePlaying)

(* C22: in useAudioPlayer, once the error field of the state is set (load   *)
(* error, not-ready, play rejected) the player stays interactive: a further *)
(* play() is accepted, and that call issues a reload of the resource before *)
(* it attempts playback.                                                    *)
C22_PlayAfterErrorReloads ==
    [][cfg.variant = "hook" /\ st.error # NoError
         /\ op'.kind = "cmd" /\ op'.name = "play"
       => /\ Len(calls') >= 2
          /\ calls'[1] = "load"
          /\ calls'[2] \in {"play", "NotReady"}]_vars

\* the step runs a speed button's handler
SpeedStep == op'.kind = "cmd" /\ op'.name = "speed"

(* C23: changing the playback speed (handleSpeedChange / setPlaybackRate)   *)
(* cycles the rate 1 -> 1.5 -> 2 -> 1, so that playbackRate is always one   *)
(* of 1, 1.5, 2, applies the new rate to the resource and affects nothing   *)
(* else: isPlaying is unchanged and neither play, pause nor load of the     *)
(* resource is invoked, whatever the autoPlay setting.                      *)
C23_SpeedChangeOnly ==
    /\ [](st.playbackSpeed \in {10, 15, 20})
    /\ [][SpeedStep
            => /\ st'.playbackSpeed = CASE st.playbackSpeed = 10 -> 15
                                         [] st.playbackSpeed = 15 -> 20
                                         [] OTHER -> 10
               /\ audio'.playbackRate = st'.playbackSpeed
               /\ st'.isPlaying = st.isPlaying
               /\ Range(calls') \cap {"play", "pause", "load"} = {}]_vars

(* C24: ProgressBar: when the pointer-up handler has finished, on every     *)
(* path through it (onSeek hook, direct assignment, reload that raises),    *)
(* isDraggingProgress is false, so that later timeupdate events update the  *)
(* displayed position again.                                                *)
C24_UpEndsDragging ==
    [][op'.kind = "up" => ~pb'.isDraggingProgress]_vars

(* C25: useAudioPlayer with autoPlay = true, as WhatsAppAudioPlayerAdvanced *)
(* uses it: the play attempts that no user command initiated happen only    *)
(* for the mount or for a change of src; in particular, once the user has   *)
(* paused, the resource's play primitive is not invoked again until the     *)
(* user calls play() or toggle(), whatever events, state updates or         *)
(* re-renders occur in between.  A run of the setup effect that finds the   *)
(* listeners registered and the src unchanged is neither the mount's nor a  *)
(* source change's.                                                         *)
C25_AutoPlayOnlyAtMount ==
    [][/\ cfg.variant = "hook" /\ cfg.autoPlay /\ cfg.inlineCb
       /\ op'.kind = "effect"
       /\ Registered /\ cfg.src = "url"
       => "play" \notin Range(calls')]_vars

\* the step dispatches a task of the element to useAudioPlayer or
\* WhatsAppAudioPlayer, and the task fires an event of the given type
Fires(type) ==
    /\ cfg.variant \in {"hook", "wa"}
    /\ op'.kind = "event"
    /\ type \in Range(HeadEvents)

(* C26: useAudioPlayer and WhatsAppAudioPlayer: every play event of the     *)
(* resource sets isPlaying = true and invokes onPlay exactly once; every    *)
(* pause event sets isPlaying = false and invokes onPause exactly once,     *)
(* whoever caused the change.                                               *)
C26_PlayPauseEventsReported ==
    [][/\ Fires("play") => st'.isPlaying /\ Count(calls', "onPlay") = 1
       /\ Fires("pause") => ~st'.isPlaying /\ Count(calls', "onPause") = 1]_vars

(* C27: useAudioPlayer and WhatsAppAudioPlayer: each of the events canplay  *)
(* and canplaythrough results in isLoading = false, canPlay = true and      *)
(* error = null, from any prior state, one with a recorded error included.  *)
C27_CanPlayClearsError ==
    [][Fires("canplay") \/ Fires("canplaythrough")
       => ~st'.isLoading /\ st'.canPlay /\ st'.error = NoError]_vars

(* C28: in every player variant (useAudioPlayer, WhatsAppAudioPlayer,       *)
(* RoundAudioPlayer, the legacy WhatsappAudioPlayer) an ended event results *)
(* in isPlaying = false and currentTime = 0 in the player's state and,      *)
(* where the player takes an onEnded callback, in exactly one invocation of *)
(* it.                                                                      *)
C28_EndedResetsPlayer ==
    [][/\ cfg.variant \in {"hook", "wa", "round", "legacy"}
       /\ op'.kind = "event" /\ "ended" \in Range(HeadEvents)
       => /\ ~st'.isPlaying /\ st'.currentTime = 0
          /\ cfg.variant # "legacy" => Count(calls', "onEnded") = 1]_vars

\* the step dispatches the loadedmetadata event to useAudioPlayer
MetadataStep ==
    cfg.variant = "hook" /\ op'.kind = "event" /\ op'.name = "loadedmetadata"

C30_RoundErrorAtEndIsEnded ==
    [][/\ cfg.variant = "round"
       /\ op'.kind = "event" /\ op'.name = "error"
       /\ AtEndOfStream
       => /\ ~st'.isPlaying /\ st'.currentTime = 0
          /\ Count(calls', "onEnded") = 1
          /\ "onError" \notin Range(calls')]_vars

(* C31: ProgressBar.getCurrentProgress: when the progress surface has zero  *)
(* width, the computed position is '0%' and the computed time is 0, a       *)
(* finite value, for every pointer position.                                *)
C31_ZeroWidthIsZero ==
    cfg.variant = "pb"
        => \A posX \in (0 - 1)..(BarWidth + 1) :
              LET tp == getCurrentProgress(audio, posX, 0)
              IN /\ isFinite(tp.currentTime) /\ tp.currentTime = 0
                 /\ tp.currentTimePos = 0

\* the step dispatches a progress event to the bar
ProgressStep == cfg.variant = "pb" /\ op'.kind = "event" /\ op'.name = "progress"

\* the ranges [(0,60),(90,235)] of a recording of 235 seconds
ExampleRanges == <<[start |-> 0, end |-> 60], [start |-> 90, end |-> 235]>>

(* C32 as stated: ProgressBar: a progress event maps each buffered range    *)
(* (start, end) to a fragment with left = 100*start/duration and            *)
(* width = 100*(end-start)/duration in percent, one fragment per range in   *)
(* the same order; the ranges [(0,60),(90,235)] with duration 235 give      *)
(* left=0%,width=25.5% and left=38.3%,width=61.7%.  Percentages are         *)
(* compared in tenths.                                                      *)
C32_FragmentsToOneDecimal ==
    /\ [](LET f == downloadProgress(ExampleRanges, 235)
          IN /\ Len(f) = 2
             /\ 10 * f[1].left = 0 /\ 10 * f[1].width = 255
             /\ 10 * f[2].left = 383 /\ 10 * f[2].width = 617)
    /\ [][ProgressStep
            => LET b == audio'.buffered
                   d == audio'.duration
                   f == pb'.downloadProgressArr
               IN /\ Len(f) = Len(b)
                  /\ \A i \in DOMAIN b :
                        /\ 10 * f[i].left = (2000 * b[i].start + d) \div (2 * d)
                        /\ 10 * f[i].width
                              = (2000 * (b[i].end - b[i].start) + d) \div (2 * d)]_vars

(* C32 amended: a progress event maps each buffered range (start, end) to a *)
(* fragment with left = 100*start/duration and width =                      *)
(* 100*(end-start)/duration, each rounded to the nearest whole percent, one *)
(* fragment per range in the same order; the ranges [(0,60),(90,235)] with  *)
(* duration 235 give left=0%,width=26% and left=38%,width=62%.              *)
C32_FragmentsInWholePercent ==
    /\ [](downloadProgress(ExampleRanges, 235)
             = <<[left |-> 0, width |-> 26], [left |-> 38, width |-> 62]>>)
    /\ [][ProgressStep
            => LET b == audio'.buffered
                   d == audio'.duration
                   f == pb'.downloadProgressArr
               IN /\ Len(f) = Len(b)
                  /\ \A i \in DOMAIN b :
                        /\ 2 * d * f[i].left - d <= 200 * b[i].start
                        /\ 200 * b[i].start < 2 * d * f[i].left + d
                        /\ 2 * d * f[i].width - d <= 200 * (b[i].end - b[i].start)
                        /\ 200 * (b[i].end - b[i].start) < 2 * d * f[i].width + d]_vars

\* two ranges with a gap, the second not starting at 0
C32_Witness ==
    /\ cfg.variant = "pb" /\ op.kind = "event" /\ op.name = "progress"
    /\ Len(audio.buffered) = 2 /\ audio.buffered[1].start > 0
    /\ Len(pb.downloadProgressArr) = 2
    /\ pb.downloadProgressArr[2].width < pb.downloadProgressArr[2].left

\* x - left clamped to the surface
ClampPos(posX, width) == IF posX < 0 THEN 0 ELSE IF posX > width THEN width ELSE posX

(* C33: ProgressBar: the time implied by a pointer position x is            *)
(* duration * clamp(x - left, 0, width) / width, a linear map of the        *)
(* laid-out surface onto [0, duration], and the release of a drag commits   *)
(* the time of the last pointer position; a drag released at 50% of the     *)
(* surface width with duration 235 commits a seek to 117.5 (470 half        *)
(* seconds map to 235 half seconds).                                        *)
C33_TimeLinearInPosition ==
    /\ [](cfg.variant = "pb" /\ cfg.src # ""
            => /\ \A posX \in (0 - 1)..(BarWidth + 1) :
                     LET t == getCurrentProgress(audio, posX, BarWidth).currentTime
                     IN IF isFinite(getDuration(audio))
                        THEN /\ t * BarWidth = getDuration(audio) * ClampPos(posX, BarWidth)
                             /\ 0 <= t /\ t <= getDuration(audio)
                        ELSE ~isFinite(t)
               /\ getCurrentProgress([audio EXCEPT !.duration = 2 * 235], 1, 2).currentTime
                     = 235)
    /\ [][cfg.variant = "pb" /\ op'.kind = "up"
            /\ (\E i \in DOMAIN calls' : calls'[i] \in {"onSeek", "setCurrentTime"})
          => arg' = pb.timeOnMouseMove]_vars

\* a drag released at half the width of the surface: half the duration is
\* assigned to the resource
C33_Witness ==
    /\ cfg.variant = "pb" /\ ~cfg.onSeek
    /\ op.kind = "up" /\ calls = <<"setCurrentTime">>
    /\ 2 * arg = Duration /\ audio.currentTime = arg
    /\ pb.pointerPos = 5000

(* C34: ProgressBar: after any sequence of mount, updates (one that         *)
(* supplies a different audio element included) and unmount, the timeupdate *)
(* and progress handlers are registered on the audio element currently      *)
(* given in props and on no other element, and on none after unmount.       *)
C34_ListenersOnCurrentElement ==
    cfg.variant = "pb"
        => pb.listenerOn = IF pb.mounted THEN pb.audioId ELSE 0

(* C35: useAudioPlayer: no reachable state has isPlaying = true together    *)
(* with canPlay = false, whatever resource events (loadstart, canplay,      *)
(* play, pause, waiting, error, ended) and play() / pause() commands led to *)
(* it.                                                                      *)
C35_PlayingImpliesCanPlay ==
    cfg.variant = "hook" => ~(st.isPlaying /\ ~st.canPlay)

(* C36: useAudioPlayer: whenever isPlaying is true the error field is null: *)
(* a recorded error is cleared before or when playback is confirmed, so the *)
(* error overlay is never shown over playing audio.                         *)
C36_PlayingImpliesNoError ==
    cfg.variant = "hook" => (st.isPlaying => st.error = NoError)

(* C37: ProgressBar: after each event handler completes, isDraggingProgress *)
(* is true exactly when window-level move/up listeners of the component are *)
(* registered: no listeners without an active session, no active session    *)
(* without its listeners.                                                   *)
C37_DraggingIffListening ==
    cfg.variant = "pb" => (pb.isDraggingProgress <=> (pb.mouseL \/ pb.touchL))

(* C38: ProgressBar with an onSeek hook: once the hook's promise has        *)
(* settled, fulfilled or rejected, waitingForSeekCallback eventually        *)
(* returns to false, so that the position updates driven by timeupdate are  *)
(* never suppressed forever.                                                *)
C38_WaitingEventuallyEnds ==
    (cfg.variant = "pb" /\ cfg.onSeek /\ op.kind = "seek")
        ~> ~pb.waitingForSeekCallback

====
